---- MODULE Spec2Model ----
(***************************************************************************)
(* Users CRUD API over MongoDB (server_mongodb.js).                        *)
(*                                                                         *)
(* Strings are sequences of one-character strings, so that trim,           *)
(* toLowerCase and the regular expressions are computed on the characters. *)
(* A request body is a function from the supplied keys to their values: a  *)
(* key outside its DOMAIN is `undefined` in the handler.  A JSON number is *)
(* a record [int, frac]: frac = 0 for an integer, 5 for "and a half".      *)
(*                                                                         *)
(* Every handler runs between two awaits as one step; the storage calls    *)
(* (findOne, save, findOneAndDelete) are the points where the requests of  *)
(* two clients interleave.  A response is the value of the handler's       *)
(* operator (pc = "done"); it is sent and not kept.                        *)
(***************************************************************************)
EXTENDS Integers, Sequences, FiniteSets, TLC

VARIABLES
    db,       \* the users collection: documents in insertion order
    nextId,   \* how many documents have been constructed (ObjectId / uuid source)
    now,      \* the last value read from the server clock
    rq,       \* rq[c]: the request of client c that is waiting on storage
    deleted,  \* ids for which DELETE has answered 200
    accepted  \* how many requests went on to wait on storage, or deleted

vars == <<db, nextId, now, rq, deleted, accepted>>

\* ------------------------------------------------------------------ bounds
MaxIds == 2
MaxClock == 1
MaxAccepted == 3

Clients == {"c1", "c2"}

\* ----------------------------------------------------------------- strings
Min(S) == CHOOSE x \in S : \A y \in S : x <= y

Rep(c, n) == [i \in 1..n |-> c]

IsSpace(c) == c = " "

UpperCase == <<"A", "B", "C", "D", "E", "F", "N", "M">>
LowerCase == <<"a", "b", "c", "d", "e", "f", "n", "m">>

LowerChar(c) ==
    IF \E i \in 1..Len(UpperCase) : UpperCase[i] = c
    THEN LowerCase[CHOOSE i \in 1..Len(UpperCase) : UpperCase[i] = c]
    ELSE c

toLowerCase(s) == [i \in 1..Len(s) |-> LowerChar(s[i])]

trim(s) ==
    IF \A i \in 1..Len(s) : IsSpace(s[i])
    THEN <<>>
    ELSE SubSeq(s,
                CHOOSE i \in 1..Len(s) :
                    ~IsSpace(s[i]) /\ \A j \in 1..(i - 1) : IsSpace(s[j]),
                CHOOSE i \in 1..Len(s) :
                    ~IsSpace(s[i]) /\ \A j \in (i + 1)..Len(s) : IsSpace(s[j]))

HexDigit(c) ==
    c \in {"0", "1", "2", "3", "4", "5", "6", "7", "8", "9",
           "a", "b", "c", "d", "e", "f", "A", "B", "C", "D", "E", "F"}

\* faulty variant: the pattern without its closing $
uuidRegexOpenEnd(id) ==
    /\ Len(id) >= 36
    /\ \A i \in 1..36 : IF i \in {9, 14, 19, 24} THEN id[i] = "-" ELSE HexDigit(id[i])

\* /^[0-9a-f]{8}-[0-9a-f]{4}-[0-9a-f]{4}-[0-9a-f]{4}-[0-9a-f]{12}$/i
uuidRegex(id) ==
    /\ Len(id) = 36
    /\ \A i \in 1..36 : IF i \in {9, 14, 19, 24} THEN id[i] = "-" ELSE HexDigit(id[i])

\* /^[^\s@]+@[^\s@]+\.[^\s@]+$/
isValidEmail(email) ==
    /\ \A i \in 1..Len(email) : ~IsSpace(email[i])
    /\ Cardinality({i \in 1..Len(email) : email[i] = "@"}) = 1
    /\ \E i \in 2..Len(email) :
          /\ email[i] = "@"
          /\ \E j \in (i + 2)..(Len(email) - 1) : email[j] = "."

\* /^\S+@\S+\.\S+$/ (the schema's match)
SchemaEmailMatch(email) ==
    /\ \A i \in 1..Len(email) : ~IsSpace(email[i])
    /\ \E i \in 2..Len(email) :
          /\ email[i] = "@"
          /\ \E j \in (i + 2)..(Len(email) - 1) : email[j] = "."

\* ----------------------------------------------------------------- numbers
Num(i) == [int |-> i, frac |-> 0]
Half(i) == [int |-> i, frac |-> 5]

IsInteger(a) == a.frac = 0
Gt(a, n) == a.int > n \/ (a.int = n /\ a.frac > 0)
Lt(a, n) == a.int < n
Ge(a, n) == a.int >= n
Le(a, n) == a.int < n \/ (a.int = n /\ a.frac = 0)

\* faulty variant: without Number.isInteger
isValidAgeAnyNumber(age) == Gt(age, 0) /\ Lt(age, 150)

isValidAge(age) == IsInteger(age) /\ Gt(age, 0) /\ Lt(age, 150)

\* faulty variant: < 100 for <= 100
isValidNameBelow(name) == Len(trim(name)) > 0 /\ Len(name) < 100

isValidName(name) == Len(trim(name)) > 0 /\ Len(name) <= 100

\* -------------------------------------------------------------- validation
Has(user, k) == k \in DOMAIN user

\* !user.name, !user.email: undefined or the empty string; !user.age: undefined or 0
Falsy(user, k) ==
    \/ ~Has(user, k)
    \/ IF k = "age" THEN user[k] = Num(0) ELSE user[k] = <<>>

Truthy(user, k) == ~Falsy(user, k)

Invalid(msg) == [valid |-> FALSE, error |-> msg]

validateUser(user, isUpdate) ==
    IF ~isUpdate /\ Falsy(user, "name") THEN Invalid("Name is required")
    ELSE IF ~isUpdate /\ Falsy(user, "email") THEN Invalid("Email is required")
    ELSE IF ~isUpdate /\ Falsy(user, "age") THEN Invalid("Age is required")
    ELSE IF Has(user, "name") /\ ~isValidName(user.name)
        THEN Invalid("Name must be a non-empty string (max 100 chars)")
    ELSE IF Has(user, "email") /\ ~isValidEmail(user.email)
        THEN Invalid("Invalid email format")
    ELSE IF Has(user, "age") /\ ~isValidAge(user.age)
        THEN Invalid("Age must be a number between 1 and 149")
    ELSE [valid |-> TRUE]

\* ------------------------------------------------- the store (MongoDB, Mongoose)
Fields == {"name", "email", "age"}

NoDoc == [oid |-> 0]
Found(doc) == doc.oid # 0

\* uuidv4(): the n-th identifier handed out, in the 8-4-4-4-12 layout
HexOf == <<"1", "2", "3", "4", "5", "6", "7", "8", "9", "a", "b", "c", "d", "e", "f">>

uuidv4(n) ==
    [i \in 1..36 |->
        IF i \in {9, 14, 19, 24} THEN "-"
        ELSE IF i = 8 THEN HexOf[n]
        ELSE IF i = 15 THEN "4"
        ELSE IF i = 20 THEN "a"
        ELSE "0"]

\* faulty variant: a filter key the schema does not know is dropped: findOne({})
findOneByIdNoFilter(d, id) == IF Len(d) = 0 THEN NoDoc ELSE d[1]

findOneById(d, id) ==
    LET hit == {i \in 1..Len(d) : d[i].id = id}
    IN  IF hit = {} THEN NoDoc ELSE d[Min(hit)]

findOneByEmail(d, email) ==
    LET hit == {i \in 1..Len(d) : d[i].email = email}
    IN  IF hit = {} THEN NoDoc ELSE d[Min(hit)]

Without(d, i) == SubSeq(d, 1, i - 1) \o SubSeq(d, i + 1, Len(d))

\* the schema's setters: name { trim: true }, email { lowercase: true }
SchemaCast(doc) == [doc EXCEPT !.name = trim(@), !.email = toLowerCase(@)]

\* the schema's validators, run by save()
SchemaValid(doc) ==
    /\ Len(doc.name) >= 1
    /\ Len(doc.name) <= 100
    /\ SchemaEmailMatch(doc.email)
    /\ Ge(doc.age, 1)
    /\ Le(doc.age, 149)

\* faulty variant: the schema without unique: true
UniqueIndexOkNoIndex(d, doc) == TRUE

\* the unique indexes on id and on email
UniqueIndexOk(d, doc) ==
    \A i \in 1..Len(d) :
        d[i].oid # doc.oid => (d[i].id # doc.id /\ d[i].email # doc.email)

\* { timestamps: true } on a new document: updatedAt follows the createdAt given
StampNew(doc) == [doc EXCEPT !.updatedAt = doc.createdAt]

\* save() of a new document: validate, stamp, insert under the unique indexes
SaveNew(d, doc) ==
    LET stamped == StampNew(doc)
    IN  IF SchemaValid(stamped) /\ UniqueIndexOk(d, stamped)
        THEN [ok |-> TRUE, db |-> Append(d, stamped), doc |-> stamped]
        ELSE [ok |-> FALSE, db |-> d, doc |-> stamped]

\* faulty variant: the age is left out of the update
DirtyPathsNoAge(user, orig) == {f \in DOMAIN user \ {"age"} : user[f] # orig[f]}

\* the paths save() sends: those set to a value other than the one loaded
DirtyPaths(user, orig) == {f \in DOMAIN user : user[f] # orig[f]}

\* faulty variant: the update sent as an upsert
SaveMissingUpsert(d, user) == [ok |-> TRUE, db |-> Append(d, user)]

\* save() of a loaded document that is no longer stored: DocumentNotFoundError
SaveMissing(d, user) == [ok |-> FALSE, db |-> d]

\* faulty variant: the update is written before the unique index is consulted
SaveExistingThenFail(d, user, orig) ==
    LET at == {i \in 1..Len(d) : d[i].oid = user.oid}
        delta == DirtyPaths(user, orig)
    IN  IF ~SchemaValid(user)
        THEN [ok |-> FALSE, db |-> d]
        ELSE IF at = {}
        THEN SaveMissing(d, user)
        ELSE LET i == Min(at)
                 new == [f \in DOMAIN d[i] |-> IF f \in delta THEN user[f] ELSE d[i][f]]
             IN  [ok |-> UniqueIndexOk(d, new), db |-> [d EXCEPT ![i] = new]]

\* save() of a loaded document: one update of the document with its _id,
\* setting the dirty paths; an error when no such document is left
SaveExisting(d, user, orig) ==
    LET at == {i \in 1..Len(d) : d[i].oid = user.oid}
        delta == DirtyPaths(user, orig)
    IN  IF ~SchemaValid(user)
        THEN [ok |-> FALSE, db |-> d]
        ELSE IF at = {}
        THEN SaveMissing(d, user)
        ELSE LET i == Min(at)
                 new == [f \in DOMAIN d[i] |-> IF f \in delta THEN user[f] ELSE d[i][f]]
             IN  IF UniqueIndexOk(d, new)
                 THEN [ok |-> TRUE, db |-> [d EXCEPT ![i] = new]]
                 ELSE [ok |-> FALSE, db |-> d]

\* findOneAndDelete({ id })
findOneAndDelete(d, id) ==
    LET hit == {i \in 1..Len(d) : d[i].id = id}
    IN  IF hit = {} THEN [doc |-> NoDoc, db |-> d]
        ELSE [doc |-> d[Min(hit)], db |-> Without(d, Min(hit))]

\* ---------------------------------------------------------------- envelopes
Idle == [pc |-> "idle"]

\* a response: data is the list of documents it carries (none, one, or all);
\* acc counts the storage calls the request made
Reply(op, status, text, data, acc) ==
    [pc |-> "done", op |-> op, status |-> status, success |-> status < 400,
     text |-> text, data |-> data, acc |-> acc]

\* ----------------------------------------------------------------- handlers
\* Each operator is one handler from a request (or a storage answer) up to its
\* next await: it yields either the response (pc = "done") or the request as it
\* waits on storage.  d is the collection as the storage call of the step reads
\* it, t the clock value the step reads.

\* faulty variant: the duplicate check without toLowerCase()
EmailTakenAsTyped(d, email) == Found(findOneByEmail(d, email))

\* "Check for duplicate email": User.findOne({ email: email.toLowerCase() })
EmailTaken(d, email) == Found(findOneByEmail(d, toLowerCase(email)))

\* faulty variant: the comparison without toLowerCase()
EmailChangedAsTyped(email, user) == email # user.email

\* email.toLowerCase() !== user.email
EmailChanged(email, user) == toLowerCase(email) # user.email

\* faulty variant: the timestamp is not refreshed
StampUpdateStale(user, t) == user

\* user.updatedAt = new Date().toISOString()
StampUpdate(user, t) == [user EXCEPT !.updatedAt = t]

\* POST /users up to save(): validation, duplicate check, new User({...})
NewUser(oid, body, t) ==
    SchemaCast([oid |-> oid, id |-> uuidv4(oid), name |-> trim(body.name),
                email |-> toLowerCase(body.email), age |-> body.age,
                createdAt |-> t, updatedAt |-> t])

PostUsers(d, body, oid, t) ==
    LET validation == validateUser(body, FALSE)
    IN  IF ~validation.valid
        THEN Reply("POST", 400, validation.error, <<>>, 0)
        ELSE IF EmailTaken(d, body.email)
        THEN Reply("POST", 400, "Email already exists", <<>>, 1)
        ELSE [pc |-> "save", op |-> "POST", body |-> body,
              user |-> NewUser(oid, body, t), acc |-> 1]

\* faulty variant: a failed save() is answered as a duplicate email
PostUsersSavedAsDuplicate(d, r) ==
    LET res == SaveNew(d, r.user)
    IN  [db |-> res.db,
         reply |-> IF res.ok
                   THEN Reply("POST", 201, "User created successfully", <<res.doc>>, r.acc + 1)
                   ELSE Reply("POST", 400, "Email already exists", <<>>, r.acc + 1)]

\* POST /users from save() on
PostUsersSaved(d, r) ==
    LET res == SaveNew(d, r.user)
    IN  [db |-> res.db,
         reply |-> IF res.ok
                   THEN Reply("POST", 201, "User created successfully", <<res.doc>>, r.acc + 1)
                   ELSE Reply("POST", 500, "Internal server error", <<>>, r.acc + 1)]

\* GET /users
GetUsers(d) == Reply("LIST", 200, "Users retrieved successfully", d, 1)

\* GET /users/:id
GetUserById(d, id) ==
    IF ~uuidRegex(id)
    THEN Reply("GET", 400, "Invalid user ID format", <<>>, 0)
    ELSE LET user == findOneById(d, id)
         IN  IF ~Found(user)
             THEN Reply("GET", 404, "User not found", <<>>, 1)
             ELSE Reply("GET", 200, "User retrieved successfully", <<user>>, 1)

\* faulty variant: the age is not assigned
PutApplyNoAge(r, t) ==
    LET u1 == IF Truthy(r.body, "name") THEN [r.user EXCEPT !.name = trim(r.body.name)] ELSE r.user
        u2 == IF Truthy(r.body, "email") THEN [u1 EXCEPT !.email = toLowerCase(r.body.email)] ELSE u1
    IN  [r EXCEPT !.pc = "save", !.user = SchemaCast(StampUpdate(u2, t))]

\* PUT /users/:id, "Update user": the assignments and the timestamp
PutApply(r, t) ==
    LET u1 == IF Truthy(r.body, "name") THEN [r.user EXCEPT !.name = trim(r.body.name)] ELSE r.user
        u2 == IF Truthy(r.body, "email") THEN [u1 EXCEPT !.email = toLowerCase(r.body.email)] ELSE u1
        u3 == IF Truthy(r.body, "age") THEN [u2 EXCEPT !.age = r.body.age] ELSE u2
    IN  [r EXCEPT !.pc = "save", !.user = SchemaCast(StampUpdate(u3, t))]

\* PUT /users/:id up to its second await
PutUser(d, id, body, t) ==
    IF ~uuidRegex(id)
    THEN Reply("PUT", 400, "Invalid user ID format", <<>>, 0)
    ELSE LET user == findOneById(d, id)
             validation == validateUser(body, TRUE)
             r == [pc |-> "dup", op |-> "PUT", body |-> body, user |-> user,
                   orig |-> user, acc |-> 1]
         IN  IF ~Found(user)
             THEN Reply("PUT", 404, "User not found", <<>>, 1)
             ELSE IF ~validation.valid
             THEN Reply("PUT", 400, validation.error, <<>>, 1)
             ELSE IF Truthy(body, "email") /\ EmailChanged(body.email, user)
             THEN r
             ELSE PutApply(r, t)

\* PUT /users/:id from the answer of the email findOne to save()
PutUserScanned(d, r, t) ==
    IF EmailTaken(d, r.body.email)
    THEN Reply("PUT", 400, "Email already exists", <<>>, r.acc + 1)
    ELSE PutApply([r EXCEPT !.acc = @ + 1], t)

\* faulty variant: the age is not assigned
PatchApplyRestNoAge(r, t) ==
    LET u1 == [r.user EXCEPT !.email = toLowerCase(r.body.email)]
        u2 == IF Has(r.body, "email") THEN u1 ELSE r.user
    IN  [r EXCEPT !.pc = "save", !.user = SchemaCast(StampUpdate(u2, t))]

\* PATCH /users/:id, "Apply partial updates": what follows the email branch
PatchApplyRest(r, t) ==
    LET u1 == [r.user EXCEPT !.email = toLowerCase(r.body.email)]
        u2 == IF Has(r.body, "email") THEN u1 ELSE r.user
        u3 == IF Has(r.body, "age") THEN [u2 EXCEPT !.age = r.body.age] ELSE u2
    IN  [r EXCEPT !.pc = "save", !.user = SchemaCast(StampUpdate(u3, t))]

\* PATCH /users/:id up to its second await
PatchUser(d, id, updates, t) ==
    IF ~uuidRegex(id)
    THEN Reply("PATCH", 400, "Invalid user ID format", <<>>, 0)
    ELSE LET user == findOneById(d, id)
             validation == validateUser(updates, TRUE)
             named == IF Has(updates, "name")
                      THEN SchemaCast([user EXCEPT !.name = trim(updates.name)])
                      ELSE user
             r == [pc |-> "dup", op |-> "PATCH", body |-> updates, user |-> named,
                   orig |-> user, acc |-> 1]
         IN  IF ~Found(user)
             THEN Reply("PATCH", 404, "User not found", <<>>, 1)
             ELSE IF ~validation.valid
             THEN Reply("PATCH", 400, validation.error, <<>>, 1)
             ELSE IF Has(updates, "email") /\ EmailChanged(updates.email, user)
             THEN r
             ELSE PatchApplyRest(r, t)

\* PATCH /users/:id from the answer of the email findOne to save()
PatchUserScanned(d, r, t) ==
    IF EmailTaken(d, r.body.email)
    THEN Reply("PATCH", 400, "Email already exists", <<>>, r.acc + 1)
    ELSE PatchApplyRest([r EXCEPT !.acc = @ + 1], t)

\* PUT and PATCH from save() on
UserSaved(d, r) ==
    LET res == SaveExisting(d, r.user, r.orig)
    IN  [db |-> res.db,
         reply |-> IF res.ok
                   THEN Reply(r.op, 200, "User updated successfully", <<r.user>>, r.acc + 1)
                   ELSE Reply(r.op, 500, "Internal server error", <<>>, r.acc + 1)]

\* DELETE /users/:id
DeleteUser(d, id) ==
    IF ~uuidRegex(id)
    THEN [db |-> d, reply |-> Reply("DELETE", 400, "Invalid user ID format", <<>>, 0)]
    ELSE LET res == findOneAndDelete(d, id)
         IN  [db |-> res.db,
              reply |-> IF ~Found(res.doc)
                        THEN Reply("DELETE", 404, "User not found", <<>>, 1)
                        ELSE Reply("DELETE", 200, "User deleted successfully", <<>>, 1)]

\* a request served from start to response with no other request in between
RunPost(d, body, oid, t) ==
    LET r == PostUsers(d, body, oid, t)
    IN  IF r.pc = "done" THEN [db |-> d, reply |-> r] ELSE PostUsersSaved(d, r)

RunPut(d, id, body, t) ==
    LET r == PutUser(d, id, body, t)
        s == IF r.pc = "dup" THEN PutUserScanned(d, r, t) ELSE r
    IN  IF s.pc = "done" THEN [db |-> d, reply |-> s] ELSE UserSaved(d, s)

RunPatch(d, id, updates, t) ==
    LET r == PatchUser(d, id, updates, t)
        s == IF r.pc = "dup" THEN PatchUserScanned(d, r, t) ELSE r
    IN  IF s.pc = "done" THEN [db |-> d, reply |-> s] ELSE UserSaved(d, s)

\* ------------------------------------------------------------------- inputs
ValidNames == {<<" ", "n">>, <<"M">>}
BadNames == {<<" ">>, Rep("x", 101)}

ValidEmails == {<<"A", "@", "b", ".", "c">>, <<"d", "@", "b", ".", "c">>}
BadEmails == {<<"a", "@", "b", "c">>}

ValidAges == {Num(1), Num(149)}
BadAges == {Num(0), Num(150), Half(1)}

Restrict(f, S) == [k \in S |-> f[k]]

\* bodies with valid values: full ones for POST (one name and age with either
\* email, another name and age with the first email), and every subset of the
\* fields, with that other name and age, for PUT and PATCH
CreateBodies ==
    {[name |-> <<" ", "n">>, email |-> e, age |-> Num(1)] : e \in ValidEmails}
    \cup {[name |-> <<"M">>, email |-> <<"A", "@", "b", ".", "c">>, age |-> Num(149)]}

UpdateBodies ==
    {Restrict([name |-> <<"M">>, email |-> e, age |-> Num(149)], S) :
        e \in ValidEmails, S \in SUBSET Fields}

\* the full body with one bad value, or with the email missing
BaseBody == [name |-> <<"M">>, email |-> <<"d", "@", "b", ".", "c">>, age |-> Num(1)]

BadBodies ==
    {[BaseBody EXCEPT !.name = n] : n \in BadNames}
    \cup {[BaseBody EXCEPT !.email = e] : e \in BadEmails}
    \cup {[BaseBody EXCEPT !.age = a] : a \in BadAges}
    \cup {Restrict(BaseBody, {"name", "age"})}

PostBodies == CreateBodies \cup BadBodies
PutBodies == UpdateBodies \cup BadBodies

\* the identifiers handed out, one of them in upper case, and malformed ones:
\* a character short, a character long, a letter that is no hex digit, a
\* digit for a dash, a dash for a digit
IssuedIds == {uuidv4(n) : n \in 1..MaxIds}

BadIds ==
    {SubSeq(uuidv4(1), 1, 35), uuidv4(1) \o <<"0">>, [uuidv4(1) EXCEPT ![1] = "g"],
     [uuidv4(1) EXCEPT ![9] = "0"], [uuidv4(1) EXCEPT ![36] = "-"]}

OtherIds == {[uuidv4(1) EXCEPT ![20] = "A"]} \cup BadIds

IdInputs == IssuedIds \cup OtherIds

\* the two-client specification: POST with one name and age; PUT and PATCH
\* with no field, with an email, with the other name, and with the name of the
\* POST and the other age; the identifiers handed out
RaceCreates == {b \in CreateBodies : b.name = <<" ", "n">> /\ b.age = Num(1)}

RaceBodies ==
    {b \in UpdateBodies : DOMAIN b \in {{}, {"email"}, {"name"}}}
    \cup {[name |-> <<" ", "n">>, age |-> Num(149)]}

\* PUT and PATCH requests of the one-client specification: for the identifiers
\* handed out, the valid bodies that carry the name and the age together or
\* neither, a body with age 0 and the bad ones; for the other identifiers, a
\* full and an empty body
SentBodies ==
    {b \in UpdateBodies : Has(b, "name") <=> Has(b, "age")}
    \cup {[BaseBody EXCEPT !.age = Num(0)]}
    \cup BadBodies

ProbeBodies == {BaseBody, Restrict(BaseBody, {})}

PutRequests ==
    {<<id, body>> : id \in IssuedIds, body \in SentBodies}
    \cup {<<id, body>> : id \in OtherIds, body \in ProbeBodies}

Times == now..MaxClock

\* ------------------------------------------------------------------ actions
Init ==
    /\ db = <<>>
    /\ nextId = 0
    /\ now = 0
    /\ rq = [c \in Clients |-> Idle]
    /\ deleted = {}
    /\ accepted = 0

\* a request was taken up: it waits on storage, or it deleted a document
TakenUp ==
    \/ \E c \in Clients : rq[c].pc = "idle" /\ rq'[c].pc # "idle"
    \/ rq' = rq /\ db' # db

\* the requests taken up are counted up to MaxAccepted
Count == accepted' = IF TakenUp /\ accepted < MaxAccepted THEN accepted + 1 ELSE accepted

\* the response is sent and the client may send its next request
Finish(c, reply) == rq' = [rq EXCEPT ![c] = Idle]

Await(c, r) == rq' = [rq EXCEPT ![c] = r]

\* the clock is read only on the way to save()
PostUsersRecv(c, body) ==
    /\ rq[c].pc = "idle"
    /\ LET r == PostUsers(db, body, nextId + 1, now)
       IN  IF r.pc = "done"
           THEN /\ Finish(c, r)
                /\ UNCHANGED <<db, nextId, now, deleted>>
           ELSE /\ nextId < MaxIds
                /\ nextId' = nextId + 1
                /\ \E t \in Times :
                      /\ now' = t
                      /\ Await(c, PostUsers(db, body, nextId + 1, t))
                /\ UNCHANGED <<db, deleted>>
    /\ Count

PostUsersSave(c) ==
    /\ rq[c].pc = "save"
    /\ rq[c].op = "POST"
    /\ LET res == PostUsersSaved(db, rq[c])
       IN  /\ db' = res.db
           /\ Finish(c, res.reply)
    /\ UNCHANGED <<nextId, now, deleted, accepted>>

GetUsersRecv(c) ==
    /\ rq[c].pc = "idle"
    /\ Finish(c, GetUsers(db))
    /\ UNCHANGED <<db, nextId, now, deleted, accepted>>

GetUserByIdRecv(c, id) ==
    /\ rq[c].pc = "idle"
    /\ Finish(c, GetUserById(db, id))
    /\ UNCHANGED <<db, nextId, now, deleted, accepted>>

\* a step of PUT or PATCH that ends in a response or in the next await;
\* handler[t] is what the step yields when the clock reads t, and the clock is
\* read only on the way to save()
UpdateStep(c, handler) ==
    /\ LET r == handler[now]
       IN  IF r.pc = "done" THEN Finish(c, r) /\ UNCHANGED now
           ELSE IF r.pc = "dup" THEN Await(c, r) /\ UNCHANGED now
           ELSE \E t \in Times : now' = t /\ Await(c, handler[t])
    /\ UNCHANGED <<db, nextId, deleted>>
    /\ Count

PutUserRecv(c, id, body) ==
    /\ rq[c].pc = "idle"
    /\ UpdateStep(c, [t \in Times |-> PutUser(db, id, body, t)])

PutUserScan(c) ==
    /\ rq[c].pc = "dup"
    /\ rq[c].op = "PUT"
    /\ UpdateStep(c, [t \in Times |-> PutUserScanned(db, rq[c], t)])

PatchUserRecv(c, id, updates) ==
    /\ rq[c].pc = "idle"
    /\ UpdateStep(c, [t \in Times |-> PatchUser(db, id, updates, t)])

PatchUserScan(c) ==
    /\ rq[c].pc = "dup"
    /\ rq[c].op = "PATCH"
    /\ UpdateStep(c, [t \in Times |-> PatchUserScanned(db, rq[c], t)])

UserSave(c) ==
    /\ rq[c].pc = "save"
    /\ rq[c].op \in {"PUT", "PATCH"}
    /\ LET res == UserSaved(db, rq[c])
       IN  /\ db' = res.db
           /\ Finish(c, res.reply)
    /\ UNCHANGED <<nextId, now, deleted, accepted>>

DeleteUserRecv(c, id) ==
    /\ rq[c].pc = "idle"
    /\ LET res == DeleteUser(db, id)
       IN  /\ db' = res.db
           /\ deleted' = IF res.reply.status = 200 THEN deleted \cup {id} ELSE deleted
           /\ Finish(c, res.reply)
    /\ UNCHANGED <<nextId, now>>
    /\ Count

\* one client, any sequence of requests
Next ==
    \/ \E body \in PostBodies : PostUsersRecv("c1", body)
    \/ PostUsersSave("c1")
    \/ GetUsersRecv("c1")
    \/ \E id \in IdInputs : GetUserByIdRecv("c1", id)
    \/ \E q \in PutRequests : PutUserRecv("c1", q[1], q[2])
    \/ PutUserScan("c1")
    \/ \E q \in PutRequests : PatchUserRecv("c1", q[1], q[2])
    \/ PatchUserScan("c1")
    \/ UserSave("c1")
    \/ \E id \in IdInputs : DeleteUserRecv("c1", id)

Spec == Init /\ [][Next]_vars

\* two clients, their requests interleaved at the storage calls; requests are
\* sent until MaxAccepted of them have been taken up
Open == accepted < MaxAccepted

RacePostUsers(c) == Open /\ \E body \in RaceCreates : PostUsersRecv(c, body)

RaceGetUsers(c) == Open /\ GetUsersRecv(c)

RaceGetUserById(c) == Open /\ \E id \in IssuedIds : GetUserByIdRecv(c, id)

RacePutUser(c) == Open /\ \E id \in IssuedIds, body \in RaceBodies : PutUserRecv(c, id, body)

RacePatchUser(c) ==
    Open /\ \E id \in IssuedIds, updates \in RaceBodies : PatchUserRecv(c, id, updates)

RaceDeleteUser(c) == Open /\ \E id \in IssuedIds : DeleteUserRecv(c, id)

NextRace ==
    \E c \in Clients :
        \/ RacePostUsers(c)
        \/ PostUsersSave(c)
        \/ RaceGetUsers(c)
        \/ RaceGetUserById(c)
        \/ RacePutUser(c)
        \/ PutUserScan(c)
        \/ RacePatchUser(c)
        \/ PatchUserScan(c)
        \/ UserSave(c)
        \/ RaceDeleteUser(c)

SpecRace == Init /\ [][NextRace]_vars

\* the validator on its own: validateUser is called with a body and a mode, and
\* the call and what it returned are kept as the request of client c1
ProbeNames ==
    ValidNames \cup BadNames
    \cup {<<>>, Rep("x", 100), <<" ">> \o Rep("x", 99), <<" ">> \o Rep("x", 100)}

ProbeEmails == ValidEmails \cup BadEmails \cup {<<>>}

ProbeAges == ValidAges \cup BadAges

ProbeUsers ==
    {Restrict([name |-> n, email |-> e, age |-> a], S) :
        n \in ProbeNames, e \in ProbeEmails, a \in ProbeAges, S \in SUBSET Fields}

ValidateUserCall(user, isUpdate) ==
    /\ rq' = [rq EXCEPT !["c1"] = [pc |-> "validated", op |-> "validateUser",
                                    body |-> user, isUpdate |-> isUpdate,
                                    validation |-> validateUser(user, isUpdate)]]
    /\ UNCHANGED <<db, nextId, now, deleted, accepted>>

NextValidate == \E user \in ProbeUsers, isUpdate \in BOOLEAN : ValidateUserCall(user, isUpdate)

SpecValidate == Init /\ [][NextValidate]_vars

\* ------------------------------------------------------------------- claims
EmailA == <<"a", "@", "b", ".", "c">>
EmailD == <<"d", "@", "b", ".", "c">>
EmptyBody == Restrict(BaseBody, {})
Updating(c) == rq[c].pc = "save" /\ rq[c].op \in {"PUT", "PATCH"}

\* between two requests of the one client of Spec: no request is in progress
Quiet == rq["c1"].pc = "idle"

\* C1: in every reachable state, under any interleaving of the requests of two
\* clients (two requests may both pass the duplicate check before either
\* persists), no two stored documents share an id and no two share an email.
UniqueIdAndEmail ==
    \A i, j \in 1..Len(db) :
        i # j => (db[i].id # db[j].id /\ db[i].email # db[j].email)

\* a request is about to save an email that another document took after the
\* request's duplicate check
RaceOnEmail ==
    \E c \in Clients :
        /\ rq[c].pc = "save"
        /\ \E i \in 1..Len(db) :
              db[i].email = rq[c].user.email /\ db[i].oid # rq[c].user.oid

\* C2: a Create with a valid body succeeds (201) and stores exactly one new
\* document when no stored document has its case-folded email; when one has,
\* it fails with 400 'Email already exists', whatever its (valid) name and age,
\* and stores nothing.
CreateOncePerEmail ==
    \A body \in PostBodies, t \in Times :
        (Quiet /\ validateUser(body, FALSE).valid) =>
            LET res == RunPost(db, body, nextId + 1, t)
            IN  IF \E i \in 1..Len(db) : db[i].email = toLowerCase(body.email)
                THEN /\ res.reply.status = 400
                     /\ res.reply.text = "Email already exists"
                     /\ res.db = db
                ELSE /\ res.reply.status = 201
                     /\ Len(res.db) = Len(db) + 1
                     /\ SubSeq(res.db, 1, Len(db)) = db
                     /\ res.db[Len(res.db)].email = toLowerCase(body.email)

\* a document created as " n", A@b.c, 1 is stored, and a Create of M, A@b.c,
\* 149 is answered 'Email already exists'
SecondCreateRefused ==
    /\ \E i \in 1..Len(db) :
          db[i].email = EmailA /\ db[i].name = <<"n">> /\ db[i].age = Num(1)
    /\ LET r == PostUsers(db, [name |-> <<"M">>, email |-> <<"A", "@", "b", ".", "c">>,
                               age |-> Num(149)], nextId + 1, now)
       IN  r.pc = "done" /\ r.status = 400 /\ r.text = "Email already exists"

\* C3: after a successful Create, GetById with the returned id answers 200 with
\* the submitted name trimmed, the submitted email in lower case and the
\* submitted age.
CreateThenGet ==
    \A body \in PostBodies, t \in Times :
        LET res == RunPost(db, body, nextId + 1, t)
        IN  (Quiet /\ res.reply.status = 201) =>
                LET got == GetUserById(res.db, res.reply.data[1].id)
                IN  /\ got.status = 200
                    /\ got.data[1].name = trim(body.name)
                    /\ got.data[1].email = toLowerCase(body.email)
                    /\ got.data[1].age = body.age
                    /\ body.name = <<" ", "n">> => got.data[1].name = <<"n">>
                    /\ body.email = <<"A", "@", "b", ".", "c">> => got.data[1].email = EmailA

\* two documents are stored as created, the second one from " n", d@b.c, 1
CreatedSecond ==
    /\ Len(db) = 2
    /\ db[2].name = <<"n">> /\ db[2].email = EmailD /\ db[2].age = Num(1)
    /\ db[2].updatedAt = db[2].createdAt
    /\ rq["c1"].pc = "idle"

\* C4: for an identifier that is not of the 8-4-4-4-12 hex shape, GetById,
\* ReplaceById, PatchById and DeleteById answer 400 'Invalid user ID format',
\* end there, and have made no storage call.
GroupedHex(id) ==
    /\ Len(id) = 36
    /\ \A i \in 1..36 : IF i \in {9, 14, 19, 24} THEN id[i] = "-" ELSE HexDigit(id[i])

Malformed(r) == r.pc = "done" /\ r.status = 400 /\ r.text = "Invalid user ID format" /\ r.acc = 0

MalformedIdRejected ==
    \A id \in IdInputs :
        (Quiet /\ ~GroupedHex(id)) =>
            /\ Malformed(GetUserById(db, id))
            /\ Malformed(DeleteUser(db, id).reply)
            /\ DeleteUser(db, id).db = db
            /\ \A body \in ProbeBodies \cup {[BaseBody EXCEPT !.age = Num(0)]} :
                  /\ Malformed(PutUser(db, id, body, now))
                  /\ Malformed(PatchUser(db, id, body, now))

\* a document is stored and DELETE of its id with one more character is refused
NearMissRefused ==
    /\ Len(db) > 0
    /\ LET res == DeleteUser(db, db[1].id \o <<"0">>)
       IN  res.reply.status = 400 /\ res.db = db /\ res.reply.acc = 0

\* C5: once DeleteById has answered 200 for an id, no document with that id is
\* stored in any later state: GetById answers 404, DeleteById answers 404,
\* and a ReplaceById or PatchById that read the document before cannot put it
\* back.
DeletedStaysDeleted ==
    \A id \in deleted :
        /\ \A i \in 1..Len(db) : db[i].id # id
        /\ GetUserById(db, id).status = 404
        /\ DeleteUser(db, id).reply.status = 404

\* an update that read the document before its delete is about to save
SaveAfterDelete == \E c \in Clients : Updating(c) /\ rq[c].user.id \in deleted

\* C6: a step changes a stored document only as the save of one PUT or PATCH,
\* and then every field the request supplied with a value other than the one
\* it read, and the timestamp it read, are all applied and nothing else is;
\* any other end of a request (400, 404, 500) leaves every document as it was.
Normal(f, v) ==
    IF f = "name" THEN trim(v) ELSE IF f = "email" THEN toLowerCase(v) ELSE v

AppliedInFull(r, old, new) ==
    \A f \in DOMAIN old :
        IF f \in Fields
        THEN IF Has(r.body, f) /\ Normal(f, r.body[f]) # r.orig[f]
             THEN new[f] = Normal(f, r.body[f])
             ELSE new[f] = old[f]
        ELSE IF f = "updatedAt" /\ r.user.updatedAt # r.orig.updatedAt
             THEN new[f] = r.user.updatedAt
             ELSE new[f] = old[f]

LocalAtDomainTld(e) ==
    /\ \A i \in 1..Len(e) : e[i] # " "
    /\ \E i \in 2..Len(e) : e[i] = "@" /\ \E j \in (i + 2)..(Len(e) - 1) : e[j] = "."

StoredInRange ==
    \A i \in 1..Len(db) :
        /\ Len(db[i].name) >= 1 /\ Len(db[i].name) <= 100
        /\ db[i].name[1] # " " /\ db[i].name[Len(db[i].name)] # " "
        /\ LocalAtDomainTld(db[i].email)
        /\ \A k \in 1..Len(db[i].email) :
              \A u \in 1..Len(UpperCase) : db[i].email[k] # UpperCase[u]
        /\ db[i].age.frac = 0 /\ db[i].age.int >= 1 /\ db[i].age.int <= 149
        /\ db[i].createdAt <= db[i].updatedAt

\* a document created from " n", A@b.c and later updated is stored
StoredNormalised ==
    \E i \in 1..Len(db) :
        /\ db[i].name = <<"n">> /\ db[i].email = EmailA
        /\ db[i].updatedAt > db[i].createdAt

\* C8: PatchById of a stored document with an empty body answers 200 and
\* changes only that document's updatedAt.
EmptyPatchStampsOnly ==
    \A i \in 1..Len(db), t \in Times :
        LET res == RunPatch(db, db[i].id, EmptyBody, t)
        IN  Quiet =>
                /\ res.reply.status = 200
                /\ res.db = [db EXCEPT ![i].updatedAt = t]

\* a PATCH with an empty body is about to save a later timestamp
EmptyPatchSaving ==
    /\ rq["c1"].pc = "save" /\ rq["c1"].op = "PATCH"
    /\ DOMAIN rq["c1"].body = {}
    /\ rq["c1"].user.updatedAt > rq["c1"].orig.updatedAt

\* C9 as stated: after a ReplaceById with a new valid name, email and age has
\* answered 200, GetById returns the replaced values, the id and createdAt are
\* those of the Create, and updatedAt is strictly greater than before.
FullUpdates == {b \in UpdateBodies : DOMAIN b = Fields}

Replaced(old, body, got) ==
    /\ got.status = 200
    /\ got.data[1].name = trim(body.name)
    /\ got.data[1].email = toLowerCase(body.email)
    /\ got.data[1].age = body.age
    /\ got.data[1].id = old.id
    /\ got.data[1].createdAt = old.createdAt

ReplaceRoundTripStrict ==
    \A i \in 1..Len(db), body \in FullUpdates, t \in Times :
        LET res == RunPut(db, db[i].id, body, t)
            got == GetUserById(res.db, db[i].id)
        IN  (Quiet /\ res.reply.status = 200) =>
                /\ Replaced(db[i], body, got)
                /\ got.data[1].updatedAt > db[i].updatedAt

\* C9 as amended: updatedAt is the clock value the ReplaceById read, which is
\* never less than the document's updatedAt before it.
ReplaceRoundTrip ==
    \A i \in 1..Len(db), body \in FullUpdates, t \in Times :
        LET res == RunPut(db, db[i].id, body, t)
            got == GetUserById(res.db, db[i].id)
        IN  (Quiet /\ res.reply.status = 200) =>
                /\ Replaced(db[i], body, got)
                /\ got.data[1].updatedAt = t
                /\ got.data[1].updatedAt >= db[i].updatedAt

\* a PUT that changes the name, the email and the age is about to save with
\* the clock where it was when the document was written
ReplaceSameInstant ==
    /\ rq["c1"].pc = "save" /\ rq["c1"].op = "PUT"
    /\ Fields \subseteq DirtyPaths(rq["c1"].user, rq["c1"].orig)
    /\ rq["c1"].user.updatedAt = rq["c1"].orig.updatedAt

\* C10: a ReplaceById or PatchById whose email equals, after case-folding, the
\* target's current email skips the uniqueness scan, never answers 'Email
\* already exists', and answers 200 when its supplied fields are valid.
SameEmailNoConflict ==
    \A i \in 1..Len(db), body \in PutBodies, t \in Times :
        (/\ Quiet
         /\ Has(body, "email")
         /\ toLowerCase(body.email) = db[i].email
         /\ validateUser(body, TRUE).valid) =>
            LET put == PutUser(db, db[i].id, body, t)
                patch == PatchUser(db, db[i].id, body, t)
            IN  /\ put.pc = "save" /\ put.acc = 1
                /\ UserSaved(db, put).reply.status = 200
                /\ patch.pc = "save" /\ patch.acc = 1
                /\ UserSaved(db, patch).reply.status = 200

\* an update sent with A@b.c for a document stored with a@b.c is about to save
\* after the one storage call that read the document
SameEmailSaving ==
    /\ Updating("c1")
    /\ Has(rq["c1"].body, "email")
    /\ rq["c1"].body.email # rq["c1"].orig.email
    /\ toLowerCase(rq["c1"].body.email) = rq["c1"].orig.email
    /\ rq["c1"].acc = 1

\* C11: for every collection, identifier and set of supplied fields, PUT and
\* PATCH with the same arguments (and the same clock reading) answer with the
\* same status, the same message and the same document, and leave the same
\* collection.
EitherBodies ==
    PutBodies
    \cup {[BaseBody EXCEPT !.age = Num(0)], [BaseBody EXCEPT !.name = <<>>],
          [BaseBody EXCEPT !.email = <<>>], Restrict([BaseBody EXCEPT !.age = Num(0)], {"age"})}

PutEqualsPatch ==
    \A id \in IdInputs, body \in EitherBodies, t \in Times :
        Quiet =>
            LET put == RunPut(db, id, body, t)
                patch == RunPatch(db, id, body, t)
            IN  /\ put.reply.status = patch.reply.status
                /\ put.reply.text = patch.reply.text
                /\ put.reply.data = patch.reply.data
                /\ put.db = patch.db

\* two documents are stored; PUT and PATCH of the age alone both answer 200
\* and change the first, and PUT and PATCH of the second document's email
\* both answer 'Email already exists'
PutAndPatchAct ==
    /\ Quiet
    /\ Len(db) = 2
    /\ LET body == [age |-> Num(149)]
       IN  /\ RunPut(db, db[1].id, body, now).reply.status = 200
           /\ RunPatch(db, db[1].id, body, now).reply.status = 200
           /\ RunPatch(db, db[1].id, body, now).db # db
    /\ LET body == [email |-> db[2].email]
       IN  /\ RunPut(db, db[1].id, body, now).reply.text = "Email already exists"
           /\ RunPatch(db, db[1].id, body, now).reply.text = "Email already exists"

\* the call of validateUser that the state of SpecValidate records
Validated == rq["c1"].pc = "validated"

\* C12 as stated: the validator reports one error, the first violation in this
\* order: in creating mode a missing name, a missing email, a missing age;
\* then, for the supplied fields, an invalid name, an invalid email, an
\* invalid age.  A field is missing when the body does not carry it or
\* carries an empty string; a number that is supplied is not missing.
Missing(user, k) == ~Has(user, k) \/ user[k] = <<>>

FirstViolation(user, isUpdate) ==
    IF ~isUpdate /\ Missing(user, "name") THEN "Name is required"
    ELSE IF ~isUpdate /\ Missing(user, "email") THEN "Email is required"
    ELSE IF ~isUpdate /\ Missing(user, "age") THEN "Age is required"
    ELSE IF Has(user, "name") /\ ~isValidName(user.name)
        THEN "Name must be a non-empty string (max 100 chars)"
    ELSE IF Has(user, "email") /\ ~isValidEmail(user.email) THEN "Invalid email format"
    ELSE IF Has(user, "age") /\ ~isValidAge(user.age)
        THEN "Age must be a number between 1 and 149"
    ELSE "none"

FirstViolationReported ==
    Validated =>
        LET first == FirstViolation(rq["c1"].body, rq["c1"].isUpdate)
        IN  IF first = "none"
            THEN rq["c1"].validation.valid
            ELSE rq["c1"].validation = Invalid(first)

\* C14: with the other fields valid, ages 1 and 149 are accepted and ages 0 and
\* 150 rejected; a name of 100 characters is accepted, one of 101 characters
\* rejected, and a name of whitespace only rejected.
OthersValid(user, isUpdate, f) ==
    \A g \in Fields \ {f} :
        IF Has(user, g)
        THEN user[g] \in (IF g = "name" THEN ValidNames
                          ELSE IF g = "email" THEN ValidEmails ELSE ValidAges)
        ELSE isUpdate

Blank(name) == Len(name) > 0 /\ \A i \in 1..Len(name) : name[i] = " "

BoundariesDecided ==
    Validated =>
        LET user == rq["c1"].body
            ok == rq["c1"].validation.valid
            age == Has(user, "age") /\ OthersValid(user, rq["c1"].isUpdate, "age")
            name == Has(user, "name") /\ OthersValid(user, rq["c1"].isUpdate, "name")
        IN  /\ (age /\ user.age \in {Num(1), Num(149)}) => ok
            /\ (age /\ user.age \in {Num(0), Num(150)}) => ~ok
            /\ (name /\ Len(user.name) = 100 /\ ~Blank(user.name)) => ok
            /\ (name /\ Len(user.name) = 101) => ~ok
            /\ (name /\ Blank(user.name)) => ~ok

\* a body with a name of 100 characters and age 149 was accepted for a create
LongestNameAccepted ==
    /\ Validated
    /\ ~rq["c1"].isUpdate
    /\ DOMAIN rq["c1"].body = Fields
    /\ rq["c1"].body.name = Rep("x", 100)
    /\ rq["c1"].body.age = Num(149)
    /\ rq["c1"].validation.valid

\* C13 as stated: Create, ReplaceById and PatchById accept a name exactly when
\* its length after trimming is between 1 and 100, and what they store is the
\* trimmed name.
TrimmedInRange(name) == Len(trim(name)) >= 1 /\ Len(trim(name)) <= 100

NameByTrimmedLength ==
    \A name \in ProbeNames :
        Quiet =>
            /\ \A e \in ValidEmails :
                  ~EmailTaken(db, e) =>
                      LET res == RunPost(db, [name |-> name, email |-> e, age |-> Num(1)],
                                         nextId + 1, now)
                      IN  /\ res.reply.status = 201 <=> TrimmedInRange(name)
                          /\ res.reply.status = 201 =>
                                 res.db[Len(res.db)].name = trim(name)
            /\ \A i \in 1..Len(db) :
                  LET put == RunPut(db, db[i].id, [name |-> name], now)
                      patch == RunPatch(db, db[i].id, [name |-> name], now)
                  IN  /\ put.reply.status = 200 <=> TrimmedInRange(name)
                      /\ patch.reply.status = 200 <=> TrimmedInRange(name)
                      /\ put.reply.status = 200 => put.db[i].name = trim(name)
                      /\ patch.reply.status = 200 => patch.db[i].name = trim(name)

\* C15: when two POSTs with the same case-folded email have both passed the
\* duplicate check and neither has saved, the one that saves first answers
\* 201 and stores one document, and the other then answers 500 'Internal
\* server error' (not 400 'Email already exists') and stores nothing, in
\* either order.
Creating(c) == rq[c].pc = "save" /\ rq[c].op = "POST"

RacingCreates ==
    \A a \in Clients, b \in Clients :
        (a # b /\ Creating(a) /\ Creating(b) /\ rq[a].user.email = rq[b].user.email) =>
            LET first == PostUsersSaved(db, rq[a])
                second == PostUsersSaved(first.db, rq[b])
            IN  /\ first.reply.status = 201
                /\ first.db = Append(db, first.reply.data[1])
                /\ first.reply.data[1].email = rq[a].user.email
                /\ second.reply.status = 500
                /\ second.reply.text = "Internal server error"
                /\ second.db = first.db

\* both POSTs, sent with the same email, wait on save(), and no document has
\* that email yet
BothPassedCheck ==
    /\ Creating("c1") /\ Creating("c2")
    /\ rq["c1"].user.email = rq["c2"].user.email
    /\ \A i \in 1..Len(db) : db[i].email # rq["c1"].user.email

\* C16: the collection changes only in the last step of a request that is
\* answered with success (201 for POST, 200 for PUT, PATCH and DELETE); every
\* step of a request that ends in 400, 404 or 500, and every step of GET
\* /users and GET /users/:id, leaves the whole collection as it was.
EndsWell(c) ==
    \/ /\ Creating(c)
       /\ rq'[c].pc = "idle"
       /\ PostUsersSaved(db, rq[c]).reply.status = 201
    \/ /\ Updating(c)
       /\ rq'[c].pc = "idle"
       /\ UserSaved(db, rq[c]).reply.status = 200
    \/ /\ rq[c].pc = "idle"
       /\ rq' = rq
       /\ \E id \in IssuedIds :
             DeleteUser(db, id).reply.status = 200 /\ db' = DeleteUser(db, id).db

OnlySuccessChanges == [][db' # db => \E c \in Clients : EndsWell(c)]_vars

\* a PUT or PATCH waits on a save() that will fail with 500, on a collection
\* that holds a document
SaveWillFail ==
    /\ Len(db) > 0
    /\ \E c \in Clients : Updating(c) /\ UserSaved(db, rq[c]).reply.status = 500

====
